---- MODULE Spec2Model ----
(***************************************************************************)
(* The version-history reconciler of src/src/update_cursor_links.py:       *)
(* update_readme, save_version_history, verify_file_integrity and          *)
(* sync_readme_to_history, acting on version-history.json, its .backup     *)
(* and .tmp siblings and README.md.                                        *)
(*                                                                         *)
(* Strings that the code compares or pattern-matches (version strings) are *)
(* sequences of character codes, so that Python's str comparison is the    *)
(* lexicographic order computed here.  Other strings (platform ids, dates, *)
(* URL names) are only compared for equality and are TLA+ strings.         *)
(***************************************************************************)
EXTENDS Integers, Sequences, FiniteSets, TLC

VARIABLES
    hist,      \* content of version-history.json
    backup,    \* content of version-history.json.backup
    tmp,       \* content of version-history.json.tmp
    readme,    \* content of README.md
    api,       \* what the download API answers per platform in this session
    day,       \* the current UTC+8 day (calls are made on consecutive days)
    pc,        \* position of the running call
    force,     \* update_readme's force_update argument
    idx,       \* position of the fetch loop in the platform order
    results,   \* update_readme's results: platform -> fetched URL (NoUrl: none)
    latest,    \* update_readme's latest_version
    mem,       \* the in-memory history (update_readme's history, sync's history_json,
               \* save_version_history's argument)
    saver,     \* who called save_version_history: "update", "sync" or "direct"
    saveRes,   \* how the last save_version_history call ended
    ret,       \* how the last update_readme call ended
    runs,      \* number of calls started so far
    faults,    \* number of failures (file operations, network outages) so far
    pre,       \* the three files as they were when the current call started
    down,      \* the network is down for the running call: every fetch fails
    killed     \* latest_version of the call that was killed between the history save
               \* and the README write (<<>>: no call was)

vars == <<hist, backup, tmp, readme, api, day, pc, force, idx, results, latest,
          mem, saver, saveRes, ret, runs, faults, pre, down, killed>>

\* the state of the surroundings: network and process kills
env == <<down, killed>>

----------------------------------------------------------------------------
(* Bounds of the model *)

\* number of calls (update_readme + verify_file_integrity, or a direct save) in a behaviour
MaxRuns == 2
\* how many entries beyond the cap the longest starting history holds
NumExtra == 1
\* how many times a file operation or the network may fail in a behaviour
MaxFaults == 1
\* the longest of the short histories the Merger is tried on
MaxMergeLen == 3

----------------------------------------------------------------------------
(* Strings as character codes *)

\* chr(48 + d), the digit d
Digit(d) == 48 + d

\* the string '.'
Dot == <<46>>

\* decimal rendering of a natural number
RECURSIVE Dec(_)
Dec(n) == IF n < 10 THEN <<Digit(n)>> ELSE Dec(n \div 10) \o <<Digit(n % 10)>>

\* the string "a.b.c"
Ver(a, b, c) == Dec(a) \o Dot \o Dec(b) \o Dot \o Dec(c)

\* Python's  a < b  on str: lexicographic by code point, a proper prefix is smaller
RECURSIVE StrLessFrom(_, _, _)
StrLessFrom(a, b, i) ==
    IF i > Len(a) THEN i <= Len(b)
    ELSE IF i > Len(b) THEN FALSE
    ELSE IF a[i] # b[i] THEN a[i] < b[i]
    ELSE StrLessFrom(a, b, i + 1)

StrLess(a, b) == StrLessFrom(a, b, 1)

IsDigit(c) == c >= 48 /\ c <= 57

\* the literal 'Unknown'
Unknown == <<85, 110, 107, 110, 111, 119, 110>>

\* latest_version's baseline '0.0.0'
BaseVersion == Ver(0, 0, 0)

\* re  \d+\.\d+\.\d+  matching the whole of s (the cell between "| " and " |")
IsTriple(s) ==
    LET dots == {i \in 1..Len(s) : s[i] = Dot[1]} IN
    /\ Cardinality(dots) = 2
    /\ \A i \in 1..Len(s) : IsDigit(s[i]) \/ s[i] = Dot[1]
    /\ \A i \in dots : i > 1 /\ i < Len(s) /\ (i + 1) \notin dots

----------------------------------------------------------------------------
(* Configuration *)

PLATFORMS ==
    [windows |-> <<"win32-x64", "win32-arm64">>,
     mac     |-> <<"darwin-universal", "darwin-x64", "darwin-arm64">>,
     linux   |-> <<"linux-x64", "linux-arm64">>]

\* the order in which  for os_key, os_data in PLATFORMS.items()  visits the platforms
PlatformOrder == PLATFORMS.windows \o PLATFORMS.mac \o PLATFORMS.linux

Range(s) == {s[i] : i \in 1..Len(s)}

PlatformIds == Range(PlatformOrder)

\* the cap on the number of entries
MaxHistory == 100

----------------------------------------------------------------------------
(* URLs.  A URL is known by its name and by what the two patterns of        *)
(* extract_version find in it: setup is group 1 of the Windows installer    *)
(* pattern, triple the first match of the generic pattern (<<>>: no match). *)

NoUrl == [name |-> <<"", "">>, setup |-> <<>>, triple |-> <<>>]

SetupUrl(p, v) == [name |-> <<p, "setup">>, setup |-> v, triple |-> v]
PlainUrl(p, v) == [name |-> <<p, "plain">>, setup |-> <<>>, triple |-> v]
BareUrl(p)     == [name |-> <<p, "bare">>, setup |-> <<>>, triple |-> <<>>]
OldUrl(p)      == [name |-> <<p, "old">>, setup |-> <<>>, triple |-> <<>>]

extract_version(url) ==
    IF url.setup # <<>> THEN url.setup
    ELSE IF url.triple # <<>> THEN url.triple
    ELSE Unknown

\* format_date: the day as YYYY-MM-DD
format_date(d) == <<"2023-12-31", "2024-01-01", "2024-01-02", "2024-01-03", "2024-01-04">>[d + 1]

\* re  \d{4}-\d{2}-\d{2}
DateShaped(s) == s \in {"2023-12-31", "2024-01-01", "2024-01-02", "2024-01-03", "2024-01-04"}

----------------------------------------------------------------------------
(* History entries and the Merger (update_readme, lines 226-290) *)

Entry(v, d, pl) == [version |-> v, date |-> d, platforms |-> pl]

\* next((i for i, entry in enumerate(versions) if entry["version"] == v), -1),
\* 1-based, 0 for "not found"
existing_version_index(versions, v) ==
    LET hits == {i \in 1..Len(versions) : versions[i].version = v}
    IN  IF hits = {} THEN 0 ELSE CHOOSE i \in hits : \A j \in hits : i <= j

\* faulty variant of ReplaceOrAppend: the URLs of the entry replaced that the new entry
\* lacks are carried over into it
ReplaceKeepingOldUrls(versions, i, new_entry) ==
    IF i # 0
    THEN LET old == versions[i].platforms
             new == new_entry.platforms
         IN  [versions EXCEPT ![i] =
                 [new_entry EXCEPT !.platforms =
                     [p \in DOMAIN old \cup DOMAIN new |->
                         IF p \in DOMAIN new THEN new[p] ELSE old[p]]]]
    ELSE Append(versions, new_entry)

\* the merge's first step: replace the entry in place, or append the new one
ReplaceOrAppend(versions, i, new_entry) ==
    IF i # 0 THEN [versions EXCEPT ![i] = new_entry]
    ELSE Append(versions, new_entry)

\* the sequence f, its elements evaluated once
Table(f) == f \o <<>>

\* faulty variant of SortDesc: the sort is left out
SortDescOmitted(s) == s

\* list.sort(key=lambda x: x["version"], reverse=True): stable, descending by the
\* version string alone.  Element i lands behind every element with a greater key and
\* behind the earlier elements with an equal key.
SortDesc(s) ==
    LET n == Len(s)
        ahead(j, i) == \/ StrLess(s[i].version, s[j].version)
                       \/ (j < i /\ s[j].version = s[i].version)
        pos == Table([i \in 1..n |-> 1 + Cardinality({j \in 1..n : ahead(j, i)})])
    IN  Table([k \in 1..n |-> s[CHOOSE i \in 1..n : pos[i] = k]])

\* faulty variant of Dedupe: the last entry of each version stays
DedupeKeepsLast(s) ==
    LET n == Len(s)
        last == Table([i \in 1..n |-> \A j \in (i + 1)..n : s[j].version # s[i].version])
        rank == Table([i \in 1..n |-> Cardinality({j \in 1..i : last[j]})])
    IN  Table([k \in 1..(IF n = 0 THEN 0 ELSE rank[n]) |->
                  s[CHOOSE i \in 1..n : last[i] /\ rank[i] = k]])

\* the unique_versions / unique_history loop: the first entry of each version stays
Dedupe(s) ==
    LET n == Len(s)
        first == Table([i \in 1..n |-> \A j \in 1..(i - 1) : s[j].version # s[i].version])
        rank == Table([i \in 1..n |-> Cardinality({j \in 1..i : first[j]})])
    IN  Table([k \in 1..(IF n = 0 THEN 0 ELSE rank[n]) |->
                  s[CHOOSE i \in 1..n : first[i] /\ rank[i] = k]])

\* faulty variant of Truncate: the cut is made one entry below the cap
TruncateBelowCap(s) ==
    IF Len(s) > MaxHistory - 1 THEN SubSeq(s, 1, MaxHistory - 1) ELSE s

\* if len(versions) > 100: versions = versions[:100]
Truncate(s) == IF Len(s) > MaxHistory THEN SubSeq(s, 1, MaxHistory) ELSE s

\* lines 259-290 as a whole
Merge(versions, i, new_entry) ==
    Truncate(Dedupe(SortDesc(ReplaceOrAppend(versions, i, new_entry))))

----------------------------------------------------------------------------
(* The README table: rendering (lines 314-349) and parsing back (lines 421-465) *)

Link(p, u) == [label |-> p, url |-> u]

\* the [platform](url) links of one cell, in the platform order of the OS family
RECURSIVE CellLinks(_, _, _)
CellLinks(ps, platforms_data, i) ==
    IF i > Len(ps) THEN <<>>
    ELSE (IF ps[i] \in DOMAIN platforms_data
            THEN <<Link(ps[i], platforms_data[ps[i]])>> ELSE <<>>)
         \o CellLinks(ps, platforms_data, i + 1)

\* a cell: its links joined by <br>, or the text 'Not Ready' (Linux cell without links)
RenderCell(os_key, platforms_data) ==
    LET links == CellLinks(PLATFORMS[os_key], platforms_data, 1)
    IN  [notReady |-> (os_key = "linux" /\ links = <<>>), links |-> links]

RenderRow(entry) ==
    [version |-> entry.version, date |-> entry.date,
     mac   |-> RenderCell("mac", entry.platforms),
     win   |-> RenderCell("windows", entry.platforms),
     linux |-> RenderCell("linux", entry.platforms)]

\* table_rows: one row per entry of the in-memory history, in its order
RenderRows(versions) == Table([i \in 1..Len(versions) |-> RenderRow(versions[i])])

\* re.findall(r'\[([^\]]+)\]\(([^)]+)\)', section), skipped for '' and 'Not Ready'
ParseCell(cell) == IF cell.notReady THEN <<>> ELSE cell.links

\* the platforms dict sync_readme_to_history builds: a later link of a label wins
ParseRow(row) ==
    LET links == ParseCell(row.mac) \o ParseCell(row.win) \o ParseCell(row.linux)
        labels == {links[i].label : i \in 1..Len(links)}
        last(l) == CHOOSE i \in 1..Len(links) :
                      /\ links[i].label = l
                      /\ \A j \in (i + 1)..Len(links) : links[j].label # l
    IN  [l \in labels |-> links[last(l)].url]

\* position of the first row that re.search(r'\| (\d+\.\d+\.\d+) \| (\d{4}-\d{2}-\d{2}) \|')
\* finds, 0 when there is none
FirstVersionRow(rows) ==
    LET hits == {i \in 1..Len(rows) : IsTriple(rows[i].version) /\ DateShaped(rows[i].date)}
    IN  IF hits = {} THEN 0 ELSE CHOOSE i \in hits : \A j \in hits : i <= j

----------------------------------------------------------------------------
(* Files *)

\* a JSON file: "missing", "corrupt" (not parseable as JSON), "bad" (JSON, but not an
\* object whose versions is a list of entries) or "ok" (a VersionHistory)
File(kind, versions) == [kind |-> kind, versions |-> versions]
Missing == File("missing", <<>>)
Corrupt == File("corrupt", <<>>)
Bad     == File("bad", <<>>)

\* README.md: whether it exists, whether it holds a table under the fixed header, the
\* table's rows, whether it holds the "last updated" marker line, and that line's time
Readme(exists, table, rows, marker, stamp) ==
    [exists |-> exists, table |-> table, rows |-> rows, marker |-> marker, stamp |-> stamp]
NoReadme == Readme(FALSE, FALSE, <<>>, FALSE, <<0, 0>>)
\* what open(readme_path, 'w') leaves behind when the write after it fails
TruncatedReadme == Readme(TRUE, FALSE, <<>>, FALSE, <<0, 0>>)

Snapshot == [hist |-> hist, backup |-> backup, readme |-> readme]

----------------------------------------------------------------------------
(* The inputs the model draws from *)

V123  == Ver(1, 2, 3)
V190  == Ver(1, 9, 0)
V1100 == Ver(1, 10, 0)
V777  == Ver(7, 7, 7)
V900  == Ver(9, 0, 0)

OldPlatforms == [p \in {"win32-x64", "linux-x64"} |-> OldUrl(p)]
OldEntry(v) == Entry(v, format_date(0), OldPlatforms)

\* answers of the download API: platform -> URL, NoUrl for a failed fetch
ApiNone == [p \in PlatformIds |-> NoUrl]
ApiUnknown == [p \in PlatformIds |-> IF p = "linux-x64" THEN BareUrl(p) ELSE NoUrl]
ApiWinOnly(v) == [p \in PlatformIds |-> IF p = "win32-x64" THEN SetupUrl(p, v) ELSE NoUrl]
ApiAll(v) ==
    [p \in PlatformIds |-> IF p \in Range(PLATFORMS.windows) THEN SetupUrl(p, v)
                           ELSE PlainUrl(p, v)]
ApiMixed ==
    [p \in PlatformIds |->
        CASE p = "win32-x64"    -> SetupUrl(p, V1100)
          [] p = "darwin-arm64" -> PlainUrl(p, V190)
          [] p = "linux-x64"    -> BareUrl(p)
          [] OTHER              -> NoUrl]

ApiRounds ==
    {ApiNone, ApiUnknown, ApiWinOnly(V123), ApiWinOnly(BaseVersion), ApiAll(V123),
     ApiAll(V900), ApiMixed}

\* a long history, sorted descending: 5.(100+n).0, ..., 5.101.0
LongHistory(n) == Table([i \in 1..n |-> OldEntry(Ver(5, 101 + n - i, 0))])

SmallDisks ==
    {Missing, Corrupt, Bad,
     File("ok", <<>>),
     File("ok", <<OldEntry(V190), OldEntry(V123)>>),
     File("ok", <<OldEntry(V123), OldEntry(V190), Entry(V123, format_date(0), <<>>)>>)}

LongDisks == {File("ok", LongHistory(n)) : n \in (MaxHistory - 1)..(MaxHistory + NumExtra)}

\* a hand-edited row for a version no history of the model holds; one of its links
\* is labelled with a word of the editor's own
DriftRow ==
    [version |-> V777, date |-> format_date(0),
     mac   |-> [notReady |-> FALSE, links |-> <<>>],
     win   |-> [notReady |-> FALSE,
                links |-> <<Link("win32-x64", OldUrl("win32-x64")),
                            Link("installer", OldUrl("installer"))>>],
     linux |-> [notReady |-> TRUE, links |-> <<>>]]

ReadmesFor(h) ==
    {NoReadme,
     Readme(TRUE, FALSE, <<>>, TRUE, <<0, 0>>),
     Readme(TRUE, TRUE, RenderRows(h.versions), TRUE, <<0, 0>>),
     Readme(TRUE, TRUE, <<DriftRow>> \o RenderRows(h.versions), TRUE, <<0, 0>>),
     Readme(TRUE, TRUE, RenderRows(h.versions) \o <<DriftRow>>, TRUE, <<0, 0>>)}

\* the READMEs beside a long history: in step with it, or with the hand-edited row first
LongReadmesFor(h) ==
    {Readme(TRUE, TRUE, RenderRows(h.versions), TRUE, <<0, 0>>),
     Readme(TRUE, TRUE, <<DriftRow>> \o RenderRows(h.versions), TRUE, <<0, 0>>)}

\* entries that share versions and differ in their dates
MergeEntries ==
    {Entry(v, format_date(d), OldPlatforms) : v \in {V123, V190, V1100}, d \in {0, 4}}

RECURSIVE SeqsUpTo(_, _)
SeqsUpTo(S, n) ==
    IF n = 0 THEN {<<>>}
    ELSE LET shorter == SeqsUpTo(S, n - 1)
         IN  shorter \cup {Append(q, e) : q \in shorter, e \in S}

\* every short history over them, in any order and with any repetition
MergeDisks == {File("ok", q) : q \in SeqsUpTo(MergeEntries, MaxMergeLen)}

\* arguments of a direct call of save_version_history
SaveArgs ==
    {File("none", <<>>), File("noversions", <<>>), File("unserializable", <<>>),
     File("ok", <<>>), File("ok", <<OldEntry(V190)>>)}

----------------------------------------------------------------------------
(* Initial state *)

InitFrom(rounds, disks, long) ==
    /\ api \in rounds
    /\ hist \in disks
    /\ backup = Missing
    /\ tmp = Missing
    /\ readme \in (IF long THEN LongReadmesFor(hist) ELSE ReadmesFor(hist))
    /\ day = 0
    /\ pc = "idle"
    /\ force = FALSE
    /\ idx = 1
    /\ results = ApiNone
    /\ latest = BaseVersion
    /\ mem = Missing
    /\ saver = "none"
    /\ saveRes = "none"
    /\ ret = "none"
    /\ runs = 0
    /\ faults = 0
    /\ pre = Snapshot
    /\ down = FALSE
    /\ killed = <<>>

\* every round on the short histories; on the long ones no result, a version that sorts
\* behind every entry and one that sorts in front of them
LongRounds == {ApiNone, ApiWinOnly(V123), ApiAll(V900)}

Init == InitFrom(ApiRounds, SmallDisks, FALSE) \/ InitFrom(LongRounds, LongDisks, TRUE)

\* the Merger's inputs: every short history, against a round whose version the
\* histories may hold (1.2.3) and one whose latest_version is 1.9.0; and the long ones
InitMerge ==
    \/ /\ InitFrom({ApiWinOnly(V123), ApiMixed}, MergeDisks, FALSE)
       /\ readme.exists
       /\ readme.table
    \/ InitFrom(LongRounds, LongDisks, TRUE)

----------------------------------------------------------------------------
(* update_readme *)

\* something outside the program fails (a file operation, the network): at most
\* MaxFaults times in a behaviour
Fault == faults < MaxFaults /\ faults' = faults + 1

\* a caller starts update_readme(force_update=f): main passes True, the default is False
StartUpdate(f) ==
    /\ pc \in {"idle", "done", "exit1", "killed"}
    /\ runs < MaxRuns
    /\ runs' = runs + 1
    /\ day' = day + 1
    /\ \/ down' = FALSE /\ UNCHANGED faults
       \/ down' = TRUE /\ Fault
    /\ UNCHANGED killed
    /\ force' = f
    /\ idx' = 1
    /\ results' = ApiNone
    /\ latest' = BaseVersion
    /\ mem' = Missing
    /\ saver' = "none"
    /\ saveRes' = "none"
    /\ ret' = "none"
    /\ pre' = Snapshot
    /\ pc' = "fetch"
    /\ UNCHANGED <<hist, backup, tmp, readme, api>>

\* fetch_latest_download_url: the URL, or None (NoUrl) for any failure of the request
fetch_latest_download_url(platform) == IF down THEN NoUrl ELSE api[platform]

\* if version != 'Unknown' and version > latest_version: latest_version = version
TrackLatest(cur, version) ==
    IF version # Unknown /\ StrLess(cur, version) THEN version ELSE cur

\* faulty variant of FetchOne: the first failed fetch ends the loop
FetchOneStopsOnFailure ==
    /\ pc = "fetch"
    /\ LET platform == PlatformOrder[idx]
           url == fetch_latest_download_url(platform)
       IN  IF url # NoUrl
           THEN /\ results' = [results EXCEPT ![platform] = url]
                /\ latest' = TrackLatest(latest, extract_version(url))
                /\ pc' = IF idx = Len(PlatformOrder) THEN "reconcile" ELSE "fetch"
           ELSE /\ pc' = "reconcile"
                /\ UNCHANGED <<results, latest>>
    /\ idx' = idx + 1
    /\ UNCHANGED <<hist, backup, tmp, readme, api, day, force, mem, saver, saveRes,
                   ret, runs, faults, pre>>
    /\ UNCHANGED env

\* one turn of the fetch loop (lines 202-214), platforms awaited one at a time
FetchOne ==
    /\ pc = "fetch"
    /\ LET platform == PlatformOrder[idx]
           url == fetch_latest_download_url(platform)
       IN  IF url # NoUrl
           THEN /\ results' = [results EXCEPT ![platform] = url]
                /\ latest' = TrackLatest(latest, extract_version(url))
           ELSE UNCHANGED <<results, latest>>
    /\ idx' = idx + 1
    /\ pc' = IF idx = Len(PlatformOrder) THEN "reconcile" ELSE "fetch"
    /\ UNCHANGED <<hist, backup, tmp, readme, api, day, force, mem, saver, saveRes,
                   ret, runs, faults, pre>>
    /\ UNCHANGED env

Return(r) ==
    /\ ret' = r
    /\ pc' = "returned"
    /\ UNCHANGED <<hist, backup, tmp, readme, api, day, force, idx, results, latest,
                   mem, saver, saveRes, runs, faults, pre>>
    /\ UNCHANGED env

\* faulty variant of NoUsableVersion: the baseline is compared with the wrong literal
NoUsableVersionWrongLiteral == latest = Unknown

\* if latest_version == '0.0.0'
NoUsableVersion == latest = BaseVersion

\* faulty variant of read_version_history: a file that does not parse yields what
\* a lenient parser salvages from it
ReadSalvagesCorrupt ==
    IF hist.kind = "missing" THEN File("ok", <<>>)
    ELSE IF hist.kind = "corrupt" THEN File("ok", <<OldEntry(V190)>>)
    ELSE hist

\* faulty variant of read_version_history: without the try/except around json.load,
\* what does not parse comes out as it is
ReadWithoutExcept ==
    IF hist.kind = "missing" THEN File("ok", <<>>) ELSE hist

\* read_version_history: the parsed file, an empty history when it is missing or
\* does not parse
read_version_history ==
    IF hist.kind \in {"missing", "corrupt"} THEN File("ok", <<>>) ELSE hist

\* the history of a "bad" file has no versions list of entries: line 226 raises
HistoryRaises == read_version_history.kind = "bad"

\* faulty variant of AlreadyRecorded: the force flag is read the wrong way round
AlreadyRecordedFlagInverted ==
    existing_version_index(read_version_history.versions, latest) # 0 /\ force

\* if existing_version_index != -1 and not force_update
AlreadyRecorded ==
    existing_version_index(read_version_history.versions, latest) # 0 /\ ~force

\* faulty variant of ReadmeMissing: the existence check is left out
ReadmeMissingUnchecked == FALSE

\* if not readme_path.exists()
ReadmeMissing == ~readme.exists

\* lines 216-218
ReturnNoVersion ==
    /\ pc = "reconcile"
    /\ NoUsableVersion
    /\ Return("false")

\* an exception of lines 223-227 leaves update_readme
ReturnRaised ==
    /\ pc = "reconcile"
    /\ ~NoUsableVersion
    /\ HistoryRaises
    /\ Return("raised")

\* lines 229-232
ReturnAlreadyRecorded ==
    /\ pc = "reconcile"
    /\ ~NoUsableVersion
    /\ ~HistoryRaises
    /\ AlreadyRecorded
    /\ Return("false")

\* lines 234-238
ReturnNoReadme ==
    /\ pc = "reconcile"
    /\ ~NoUsableVersion
    /\ ~HistoryRaises
    /\ ~AlreadyRecorded
    /\ ReadmeMissing
    /\ Return("false")

\* lines 243-257: the platforms of every URL fetched this round
\* faulty variant of NewPlatforms: only the URLs that carry latest_version are taken
NewPlatformsOfLatestOnly ==
    [p \in {q \in PlatformIds : results[q] # NoUrl /\ extract_version(results[q]) = latest}
        |-> results[p]]

NewPlatforms ==
    [p \in {q \in PlatformIds : results[q] # NoUrl} |-> results[p]]

NewEntry == Entry(latest, format_date(day), NewPlatforms)

\* faulty variant of MergeAndSave: the call of save_version_history is left out before the
\* README is rendered
MergeWithoutSave ==
    /\ pc = "reconcile"
    /\ ~NoUsableVersion
    /\ ~HistoryRaises
    /\ ~AlreadyRecorded
    /\ ~ReadmeMissing
    /\ LET versions == read_version_history.versions
       IN  mem' = File("ok", Merge(versions, existing_version_index(versions, latest),
                                   NewEntry))
    /\ saver' = "update"
    /\ pc' = "render"
    /\ UNCHANGED <<hist, backup, tmp, readme, api, day, force, idx, results, latest,
                   saveRes, ret, runs, faults, pre>>
    /\ UNCHANGED env

\* lines 243-294: build the entry, merge it, call save_version_history
MergeAndSave ==
    /\ pc = "reconcile"
    /\ ~NoUsableVersion
    /\ ~HistoryRaises
    /\ ~AlreadyRecorded
    /\ ~ReadmeMissing
    /\ LET versions == read_version_history.versions
       IN  mem' = File("ok", Merge(versions, existing_version_index(versions, latest),
                                   NewEntry))
    /\ saver' = "update"
    /\ pc' = "save"
    /\ UNCHANGED <<hist, backup, tmp, readme, api, day, force, idx, results, latest,
                   saveRes, ret, runs, faults, pre>>
    /\ UNCHANGED env

----------------------------------------------------------------------------
(* save_version_history *)

\* a direct call of the exported function
StartSave(arg) ==
    /\ pc \in {"idle", "done", "exit1"}
    /\ runs < MaxRuns
    /\ runs' = runs + 1
    /\ mem' = arg
    /\ saver' = "direct"
    /\ saveRes' = "none"
    /\ ret' = "none"
    /\ pre' = Snapshot
    /\ pc' = "save"
    /\ UNCHANGED <<hist, backup, tmp, readme, api, day, force, idx, results, latest,
                   faults>>
    /\ UNCHANGED env

\* faulty variant of ValidArgument: only  not history  is tested, not the versions list
ValidArgumentNoListCheck(history) == history.kind # "none"

\* not (not history or not isinstance(history.get("versions"), list))
ValidArgument(history) == history.kind \in {"ok", "unserializable"}

\* lines 144-156: an invalid argument is logged and the call returns; otherwise
\* history_path.replace(backup_path) when the file exists, a failure only logged
SaveBegin ==
    /\ pc = "save"
    /\ \/ /\ ~ValidArgument(mem)
          /\ saveRes' = "rejected"
          /\ pc' = "save_ret"
          /\ UNCHANGED <<hist, backup, faults>>
       \/ /\ ValidArgument(mem)
          /\ hist.kind # "missing"
          /\ backup' = hist
          /\ hist' = Missing
          /\ pc' = "save_write"
          /\ UNCHANGED <<saveRes, faults>>
       \/ /\ ValidArgument(mem)
          /\ hist.kind # "missing"
          /\ Fault
          /\ pc' = "save_write"
          /\ UNCHANGED <<hist, backup, saveRes>>
       \/ /\ ValidArgument(mem)
          /\ hist.kind = "missing"
          /\ pc' = "save_write"
          /\ UNCHANGED <<hist, backup, saveRes, faults>>
    /\ UNCHANGED <<tmp, readme, api, day, force, idx, results, latest, mem, saver,
                   ret, runs, pre>>
    /\ UNCHANGED env

\* json.dumps raises on what it cannot serialize
DumpsRaises(history) == history.kind = "unserializable"

\* lines 158-171: serialize, parse the result back, write the temporary file
SaveWrite ==
    /\ pc = "save_write"
    /\ \/ /\ DumpsRaises(mem)
          /\ saveRes' = "raised"
          /\ pc' = "save_ret"
          /\ UNCHANGED <<tmp, faults>>
       \/ /\ ~DumpsRaises(mem)       \* json.loads(json_data) raises: return
          /\ Fault
          /\ saveRes' = "aborted"
          /\ pc' = "save_ret"
          /\ UNCHANGED tmp
       \/ /\ ~DumpsRaises(mem)       \* the write of the temporary file raises
          /\ Fault
          /\ tmp' = Corrupt
          /\ saveRes' = "raised"
          /\ pc' = "save_ret"
       \/ /\ ~DumpsRaises(mem)
          /\ tmp' = mem
          /\ pc' = "save_rename"
          /\ UNCHANGED <<saveRes, faults>>
    /\ UNCHANGED <<hist, backup, readme, api, day, force, idx, results, latest, mem,
                   saver, ret, runs, pre>>
    /\ UNCHANGED env

\* lines 172-179: temp_path.replace(history_path)
SaveRename ==
    /\ pc = "save_rename"
    /\ \/ /\ hist' = tmp
          /\ tmp' = Missing
          /\ saveRes' = "written"
          /\ UNCHANGED faults
       \/ /\ Fault
          /\ saveRes' = "raised"
          /\ UNCHANGED <<hist, tmp>>
    /\ pc' = "save_ret"
    /\ UNCHANGED <<backup, readme, api, day, force, idx, results, latest, mem, saver,
                   ret, runs, pre>>
    /\ UNCHANGED env

\* the locals of a finished call are gone
Finish(p) ==
    /\ pc' = p
    /\ force' = FALSE
    /\ idx' = 1
    /\ results' = ApiNone
    /\ latest' = BaseVersion
    /\ mem' = Missing
    /\ saver' = "none"
    /\ saveRes' = "none"
    /\ ret' = "none"
    /\ pre' = Snapshot
    /\ down' = FALSE
    /\ UNCHANGED <<hist, backup, tmp, readme, api, day, runs, faults>>

\* update_readme renders whether or not the save raised (lines 293-297)
SaveReturnToUpdate ==
    /\ pc = "save_ret"
    /\ saver = "update"
    /\ pc' = "render"
    /\ UNCHANGED <<hist, backup, tmp, readme, api, day, force, idx, results, latest,
                   mem, saver, saveRes, ret, runs, faults, pre>>
    /\ UNCHANGED env

\* sync_readme_to_history's save: verify_file_integrity's except swallows what it
\* raises; a direct caller is done
SaveReturnToOther ==
    /\ pc = "save_ret"
    /\ saver # "update"
    /\ Finish("done")
    /\ UNCHANGED killed

----------------------------------------------------------------------------
(* The Renderer (lines 299-372) *)

\* faulty variant of Rendered: the new rows are put in front of the rows of the old table
RenderedOntoOldRows(old, versions, now) ==
    Readme(TRUE, TRUE, RenderRows(versions) \o old.rows, old.marker,
           IF old.marker THEN now ELSE old.stamp)

\* the README with its table replaced (or appended) and its marker line rewritten
Rendered(old, versions, now) ==
    Readme(TRUE, TRUE, RenderRows(versions), old.marker,
           IF old.marker THEN now ELSE old.stamp)

WriteReadme ==
    /\ pc = "render"
    /\ \/ /\ readme' = Rendered(readme, mem.versions, <<day, runs>>)
          /\ ret' = "true"
          /\ UNCHANGED faults
       \/ /\ Fault                   \* open(readme_path, 'w') raises
          /\ ret' = "false"
          /\ UNCHANGED readme
       \/ /\ Fault                   \* f.write raises
          /\ readme' = TruncatedReadme
          /\ ret' = "false"
    /\ pc' = "returned"
    /\ UNCHANGED <<hist, backup, tmp, api, day, force, idx, results, latest, mem,
                   saver, saveRes, runs, pre>>
    /\ UNCHANGED env

\* the process is killed after the history save has returned and before README.md is
\* opened for writing: nothing of the call runs any more, main's verify included
Interrupt ==
    /\ pc = "render"
    /\ killed = <<>>
    /\ killed' = latest
    /\ Finish("killed")

----------------------------------------------------------------------------
(* main (lines 375-395), verify_file_integrity and sync_readme_to_history *)

\* faulty variant of MainExit: main also exits non-zero when update_readme reports
\* failure
MainExitOnFailure ==
    /\ pc = "returned"
    /\ ret \in {"raised", "false"}
    /\ Finish("exit1")
    /\ UNCHANGED killed

\* an exception out of update_readme ends main with exit(1)
MainExit ==
    /\ pc = "returned"
    /\ ret = "raised"
    /\ Finish("exit1")
    /\ UNCHANGED killed

\* otherwise main goes on to verify_file_integrity
MainVerify ==
    /\ pc = "returned"
    /\ ret # "raised"
    /\ pc' = "verify"
    /\ UNCHANGED <<hist, backup, tmp, readme, api, day, force, idx, results, latest,
                   mem, saver, saveRes, ret, runs, faults, pre>>
    /\ UNCHANGED env

\* the row of the first  version | date  pair of the README, 0 for none
DriftIndex == FirstVersionRow(readme.rows)

\* faulty variant of DriftFound: version_exists is not looked at
DriftFoundIgnoresHistory ==
    /\ hist.kind = "ok"
    /\ readme.exists
    /\ DriftIndex # 0

\* verify_file_integrity reaches line 430 and finds the README's version missing
DriftFound ==
    /\ hist.kind = "ok"
    /\ readme.exists
    /\ DriftIndex # 0
    /\ \A i \in 1..Len(hist.versions) :
          hist.versions[i].version # readme.rows[DriftIndex].version

\* the platforms sync_readme_to_history parses from the drifted row (none without one)
SyncPlatforms == IF DriftIndex = 0 THEN <<>> ELSE ParseRow(readme.rows[DriftIndex])

\* faulty variant of SyncEntry: the links of the row are not carried into the entry
SyncEntryWithoutLinks(row) == Entry(row.version, row.date, <<>>)

\* the entry sync_readme_to_history rebuilds from the row
SyncEntry(row) == Entry(row.version, row.date, ParseRow(row))

\* history_json["versions"].append(new_entry); ...sort(...)
SyncMerge(versions, new_entry) == SortDesc(Append(versions, new_entry))

\* faulty variant of VerifySkip: a check that finds no row to repair renders the history
\* into README.md
VerifySkipRendersHistory ==
    /\ pc = "verify"
    /\ \/ ~DriftFound
       \/ DOMAIN SyncPlatforms = {}
    /\ readme' = IF hist.kind = "ok" /\ readme.exists
                  THEN Rendered(readme, hist.versions, <<day, runs>>) ELSE readme
    /\ pc' = "done"
    /\ force' = FALSE
    /\ idx' = 1
    /\ results' = ApiNone
    /\ latest' = BaseVersion
    /\ mem' = Missing
    /\ saver' = "none"
    /\ saveRes' = "none"
    /\ ret' = "none"
    /\ pre' = [hist |-> hist, backup |-> backup, readme |-> readme']
    /\ down' = FALSE
    /\ UNCHANGED <<hist, backup, tmp, api, day, runs, faults, killed>>

\* every way of leaving the check without a save: a file is missing, the history
\* does not parse (the except of line 434), no row, no drift, or a row without links
VerifySkip ==
    /\ pc = "verify"
    /\ \/ ~DriftFound
       \/ DOMAIN SyncPlatforms = {}
    /\ Finish("done")
    /\ UNCHANGED killed

\* faulty variant of VerifySync: the repair also renders the history into README.md
VerifySyncRewritesReadme ==
    /\ pc = "verify"
    /\ DriftFound
    /\ DOMAIN SyncPlatforms # {}
    /\ mem' = File("ok", SyncMerge(hist.versions, SyncEntry(readme.rows[DriftIndex])))
    /\ readme' = Rendered(readme, mem'.versions, <<day, runs>>)
    /\ saver' = "sync"
    /\ saveRes' = "none"
    /\ pc' = "save"
    /\ UNCHANGED <<hist, backup, tmp, api, day, force, idx, results, latest,
                   ret, runs, faults, pre>>
    /\ UNCHANGED env

\* drift: lines 431-433 and 437-481, up to the call of save_version_history
VerifySync ==
    /\ pc = "verify"
    /\ DriftFound
    /\ DOMAIN SyncPlatforms # {}
    /\ mem' = File("ok", SyncMerge(hist.versions, SyncEntry(readme.rows[DriftIndex])))
    /\ saver' = "sync"
    /\ saveRes' = "none"
    /\ pc' = "save"
    /\ UNCHANGED <<hist, backup, tmp, readme, api, day, force, idx, results, latest,
                   ret, runs, faults, pre>>
    /\ UNCHANGED env

----------------------------------------------------------------------------
(* Specifications *)

\* calls of main: update_readme, then verify_file_integrity
Next ==
    \/ \E f \in BOOLEAN : StartUpdate(f)
    \/ FetchOne
    \/ ReturnNoVersion
    \/ ReturnRaised
    \/ ReturnAlreadyRecorded
    \/ ReturnNoReadme
    \/ MergeAndSave
    \/ SaveBegin
    \/ SaveWrite
    \/ SaveRename
    \/ SaveReturnToUpdate
    \/ SaveReturnToOther
    \/ WriteReadme
    \/ Interrupt
    \/ MainExit
    \/ MainVerify
    \/ VerifySkip
    \/ VerifySync

Spec == Init /\ [][Next]_vars

\* update_readme up to the merge (lines 193-290)
NextMerge ==
    \/ \E f \in BOOLEAN : StartUpdate(f)
    \/ FetchOne
    \/ ReturnNoVersion
    \/ ReturnAlreadyRecorded
    \/ MergeAndSave

SpecMerge == InitMerge /\ [][NextMerge]_vars

\* direct calls of the exported save_version_history, with any argument
NextSave ==
    \/ \E arg \in SaveArgs : StartSave(arg)
    \/ SaveBegin
    \/ SaveWrite
    \/ SaveRename
    \/ SaveReturnToOther

SpecSave == Init /\ [][NextSave]_vars

----------------------------------------------------------------------------
(* Properties *)

\* save_version_history has just returned to the reconciler after writing the file
WrittenByReconciler ==
    pc = "save_ret" /\ saveRes = "written" /\ saver \in {"update", "sync"}

\* the three files are as they were when the call started
FilesUnchanged == hist = pre.hist /\ backup = pre.backup /\ readme = pre.readme

HasVersion(file, v) ==
    file.kind = "ok" /\ existing_version_index(file.versions, v) # 0

Sorted(versions) ==
    \A i \in 1..(Len(versions) - 1) :
        ~StrLess(versions[i].version, versions[i + 1].version)

\* C1: every history the reconciler writes to version-history.json, from update_readme
\* or from the repair of sync_readme_to_history, has at most 100 entries.
C1_WrittenAtMost100 ==
    WrittenByReconciler => Len(hist.versions) <= MaxHistory

\* C2: every history the reconciler writes holds at most one entry per version string.
C2_WrittenOnePerVersion ==
    WrittenByReconciler =>
        \A i, j \in 1..Len(hist.versions) :
            hist.versions[i].version = hist.versions[j].version => i = j

\* C3: every history the reconciler writes lists its entries in non-increasing
\* lexicographic order of the version string.
C3_WrittenSortedDescending ==
    WrittenByReconciler => Sorted(hist.versions)

\* C3 witness: the repair path has written a history of several entries over a file
\* whose entries were out of order.
C3_Witness ==
    /\ WrittenByReconciler
    /\ saver = "sync"
    /\ Len(hist.versions) >= 3
    /\ pre.hist.kind = "ok"
    /\ ~Sorted(pre.hist.versions)

\* C4: a second update_readme with the same fetch results and without force_update,
\* no file operation having failed and no call having been cut short, leaves version-history.json, its backup and
\* README.md as the first call left them.
C4_SecondRunChangesNothing ==
    (pc = "returned" /\ runs = 2 /\ ~force /\ faults = 0 /\ killed = <<>>)
        => FilesUnchanged

\* C5: when the history on disk has an entry for latest_version and force_update is
\* false, update_readme returns False and the three files are unchanged.
C5_RecordedVersionNoUpdate ==
    (pc = "returned" /\ ~force /\ latest # BaseVersion /\ HasVersion(pre.hist, latest))
        => (ret = "false" /\ FilesUnchanged)

\* C5 witness: such a call has returned.
C5_Witness ==
    /\ pc = "returned"
    /\ ~force
    /\ latest # BaseVersion
    /\ HasVersion(pre.hist, latest)
    /\ pre.readme.exists

\* no platform of the round gave a version: no URL, or only URLs without a version
NoPlatformVersion ==
    \A p \in PlatformIds :
        results[p] = NoUrl \/ extract_version(results[p]) = Unknown

\* C6: when no platform of the round yields a usable version, update_readme returns
\* False and the three files are unchanged.
C6_NoVersionNoChange ==
    (pc = "returned" /\ NoPlatformVersion) => (ret = "false" /\ FilesUnchanged)

\* C6 witness: a call has returned whose only fetched URL has no version in it, with
\* both files present.
C6_Witness ==
    /\ pc = "returned"
    /\ NoPlatformVersion
    /\ \E p \in PlatformIds : results[p] # NoUrl
    /\ pre.hist.kind = "ok"
    /\ pre.readme.exists

\* C7 as claimed: whenever save_version_history returns without raising,
\* version-history.json exists and is structurally a VersionHistory.
C7_ReturnMeansValidFile ==
    (pc = "save_ret" /\ saveRes # "raised") => hist.kind = "ok"

\* C7 as amended: whenever save_version_history, given an object with a versions list,
\* returns without raising and without aborting on the round-trip check,
\* version-history.json exists and holds that history.
C7_SavedMeansValidFile ==
    (pc = "save_ret" /\ ValidArgument(mem) /\ saveRes \notin {"raised", "aborted"})
        => (hist.kind = "ok" /\ hist.versions = mem.versions)

\* C7 witness: a save has returned normally over a file that did not parse before.
C7_Witness ==
    /\ pc = "save_ret"
    /\ ValidArgument(mem)
    /\ saveRes \notin {"raised", "aborted"}
    /\ pre.hist.kind = "corrupt"
    /\ Len(mem.versions) > 0

\* C8: when the round-trip parse check fails, the version-history.json that existed
\* before the call is still at its path with its content.
C8_AbortKeepsFile ==
    (pc = "save_ret" /\ saveRes = "aborted") => hist = pre.hist

\* C9 as claimed: when README.md is missing, update_readme reports failure only after
\* the history with the latest_version entry has been saved.
C9_MissingReadmeAfterSave ==
    (pc = "returned" /\ ret = "false" /\ ~pre.readme.exists /\ latest # BaseVersion)
        => HasVersion(hist, latest)

\* C9 as amended: when README.md is missing, update_readme ends without having called
\* save_version_history, reporting failure (or raising on a malformed history), and
\* version-history.json and its backup are as they were.
C9_MissingReadmeBeforeSave ==
    (pc = "returned" /\ ~pre.readme.exists)
        => (ret \in {"false", "raised"} /\ saveRes = "none" /\ FilesUnchanged)

\* C9 witness: README.md is missing and the call, with a new version in hand, has
\* reported failure.
C9_Witness ==
    /\ pc = "returned"
    /\ ret = "false"
    /\ ~pre.readme.exists
    /\ latest # BaseVersion
    /\ ~HasVersion(pre.hist, latest)

\* update_readme has got as far as the README write
Rendering == pc \in {"render", "returned"} /\ saver = "update"

\* C10 as claimed: whenever update_readme is at or past the README write, the history
\* save has completed and version-history.json holds the updated history.
C10_RenderAfterCommittedSave ==
    Rendering => (hist.kind = "ok" /\ hist.versions = mem.versions)

\* C10 as amended: whenever update_readme is at or past the README write, the call of
\* save_version_history has ended (written, aborted or raised); if it wrote,
\* version-history.json holds the updated history; and update_readme returns True only
\* with the table rendered into README.md, False with README.md as it was or truncated.
C10_RenderAfterSaveCall ==
    Rendering =>
        /\ saveRes \in {"written", "aborted", "raised"}
        /\ saveRes = "written" => (hist.kind = "ok" /\ hist.versions = mem.versions)
        /\ (pc = "returned" /\ ret = "true") =>
               (readme.exists /\ readme.rows = RenderRows(mem.versions))
        /\ pc = "returned" =>
               (ret = "true" \/ (ret = "false" /\ readme \in {pre.readme, TruncatedReadme}))

\* C10 witness: the README write has failed and update_readme has returned False with
\* the updated history already in version-history.json.
C10_Witness ==
    /\ Rendering
    /\ pc = "returned"
    /\ ret = "false"
    /\ saveRes = "written"
    /\ hist # pre.hist
    /\ HasVersion(hist, latest)

\* the entry that stands for a README row: its version, its date and the
\* platform -> url pairs of its markdown links
RowEntry(row) == Entry(row.version, row.date, ParseRow(row))

\* the version of every version row of the README table has an entry in the history
EveryRowRecorded ==
    \A i \in 1..Len(readme.rows) :
        (IsTriple(readme.rows[i].version) /\ DateShaped(readme.rows[i].date))
            => HasVersion(hist, readme.rows[i].version)

\* C11 as claimed: once verify_file_integrity has run over a parseable history, no file
\* operation having failed, every version row of the README table has its entry in
\* version-history.json.
C11_EveryRowRepaired ==
    (pc = "done" /\ faults = 0 /\ hist.kind = "ok" /\ readme.exists) => EveryRowRecorded

\* C11 as amended: when the first version row of the README table names a version that
\* a parseable version-history.json lacks, and the row holds at least one markdown link,
\* verify_file_integrity hands save_version_history the history with one more entry, made
\* of the row's version, date and parsed platform -> url pairs; when that save writes,
\* version-history.json contains the entry.
C11_FirstRowRepaired ==
    [][/\ (pc = "verify" /\ DriftFound /\ DOMAIN SyncPlatforms # {}) =>
              /\ pc' = "save"
              /\ saver' = "sync"
              /\ Len(mem'.versions) = Len(hist.versions) + 1
              /\ RowEntry(readme.rows[DriftIndex]) \in Range(mem'.versions)
       /\ (pc = "save_ret" /\ saver = "sync" /\ saveRes = "written") =>
              RowEntry(readme.rows[DriftIndex]) \in Range(hist.versions)]_vars

\* C11 witness: the repair has written a history with the entry of a row whose version
\* the history lacked when the run started.
C11_Witness ==
    /\ pc = "save_ret"
    /\ saver = "sync"
    /\ saveRes = "written"
    /\ pre.hist.kind = "ok"
    /\ ~HasVersion(pre.hist, V777)
    /\ HasVersion(hist, V777)
    /\ hist.versions[existing_version_index(hist.versions, V777)].platforms
           = [p \in {"win32-x64", "installer"} |-> OldUrl(p)]

\* verify_file_integrity is running, sync_readme_to_history and its save included
Verifying == pc = "verify" \/ saver = "sync"

\* C12: no step of verify_file_integrity or of sync_readme_to_history changes README.md.
C12_VerifyNeverWritesReadme ==
    [][Verifying => readme' = readme]_vars

\* C12 witness: the repair has written version-history.json from a hand-edited first
\* row, and README.md is as it was when the run started.
C12_Witness ==
    /\ pc = "save_ret"
    /\ saver = "sync"
    /\ saveRes = "written"
    /\ hist # pre.hist
    /\ readme = pre.readme
    /\ readme.rows[1] = DriftRow

\* the versions of the rows of a README table
RowVersions(r) == {r.rows[i].version : i \in 1..Len(r.rows)}

\* C13 as claimed: after a call was killed between the history save and the README
\* write, once the Integrity Checker of a later run has run, the README table has a row
\* for the version the killed call saved.
C13_CheckerRepairsDrift ==
    (killed # <<>> /\ pc = "done" /\ HasVersion(hist, killed))
        => killed \in RowVersions(readme)

\* C13 as amended: after such a kill, no step of a later Integrity Checker changes
\* README.md or takes the saved version out of the history, so the checker leaves
\* the drift as it found it; the table has the row once a later update_readme has
\* returned True with the version in its in-memory history, and has gained no row
\* when update_readme has not returned True.
C13_CheckerLeavesDrift ==
    [][(killed # <<>> /\ Verifying) =>
          /\ readme' = readme
          /\ (HasVersion(hist, killed) /\ hist'.kind = "ok") => HasVersion(hist', killed)
          /\ (pc = "verify" /\ ret = "true" /\ HasVersion(mem, killed))
                 => killed \in RowVersions(readme)
          /\ ret # "true" => RowVersions(readme) \subseteq RowVersions(pre.readme)]_vars

\* C13 witness: the run after the kill has ended, Integrity Checker included, the
\* history holds the version the killed call saved and the README table has no row
\* for it.
C13_Witness ==
    /\ killed # <<>>
    /\ pc = "done"
    /\ runs = 2
    /\ HasVersion(hist, killed)
    /\ readme.exists
    /\ readme.table
    /\ killed \notin RowVersions(readme)

\* C14: read_version_history returns the empty history when version-history.json is
\* missing or is not parseable JSON, and in every case returns a value: update_readme
\* ends by an exception only on a file that parses but is not a history.
C14_ReadNeverRaises ==
    /\ hist.kind \in {"missing", "corrupt"} => read_version_history = File("ok", <<>>)
    /\ read_version_history.kind \in {"ok", "bad"}
    /\ (pc = "returned" /\ ret = "raised") => pre.hist.kind = "bad"

\* C14 witness: update_readme, a usable version in hand, is at its call of
\* read_version_history and version-history.json is not parseable.
C14_Witness ==
    /\ pc = "reconcile"
    /\ ~NoUsableVersion
    /\ hist.kind = "corrupt"

\* update_readme's save_version_history has returned after writing the file, and the
\* call has not ended yet
UpdateSaved ==
    /\ saver = "update"
    /\ saveRes = "written"
    /\ pc \in {"save_ret", "render", "returned", "verify"}

\* C15: when version-history.json does not parse at the start of a run that gets a
\* usable version and finds README.md, then from the save on version-history.json is a
\* history holding the entry built in this run and nothing else, and the Integrity
\* Checker that follows a successful README write finds nothing to add to it.
C15_CorruptHistoryStartsAfresh ==
    (UpdateSaved /\ pre.hist.kind = "corrupt") =>
        /\ hist = File("ok", <<NewEntry>>)
        /\ (pc = "verify" /\ ret = "true") => ~DriftFound

\* C15 witness: such a run has written both files and is at the Integrity Checker; the
\* unparseable content is in the backup.
C15_Witness ==
    /\ UpdateSaved
    /\ pc = "verify"
    /\ ret = "true"
    /\ pre.hist.kind = "corrupt"
    /\ backup = Corrupt
    /\ hist = File("ok", <<NewEntry>>)

\* only win32-x64 has returned a URL this round, an installer URL
OnlyWin ==
    /\ results["win32-x64"] # NoUrl
    /\ results["win32-x64"].setup # <<>>
    /\ \A p \in PlatformIds \ {"win32-x64"} : results[p] = NoUrl

\* the entry and the row the scenario expects for the installer's version
WinOnlyEntry ==
    Entry(extract_version(results["win32-x64"]), format_date(day),
          [p \in {"win32-x64"} |-> results["win32-x64"]])

WinOnlyRow ==
    [version |-> extract_version(results["win32-x64"]), date |-> format_date(day),
     mac   |-> [notReady |-> FALSE, links |-> <<>>],
     win   |-> [notReady |-> FALSE,
                links |-> <<Link("win32-x64", results["win32-x64"])>>],
     linux |-> [notReady |-> TRUE, links |-> <<>>]]

\* the scenario's outcome: latest_version is the installer's version, the history is
\* the one new entry, the README table is the one row
WinOnlyOutcome ==
    /\ latest = extract_version(results["win32-x64"])
    /\ ret = "true"
    /\ hist = File("ok", <<WinOnlyEntry>>)
    /\ readme.exists
    /\ readme.table
    /\ readme.rows = <<WinOnlyRow>>

\* C16: from an empty history and an existing README whose table is in step with it,
\* when only win32-x64 returns an installer URL and no file operation fails,
\* update_readme ends with latest_version the installer's version, one entry
\* {version, today, {win32-x64: url}} in the history and one row for it in the table:
\* empty Mac cell, the link in the Windows cell, Not Ready in the Linux cell.
C16_WinOnlyAddsOneEntryOneRow ==
    (/\ pc = "returned"
     /\ OnlyWin
     /\ faults = 0
     /\ pre.hist = File("ok", <<>>)
     /\ pre.readme.exists
     /\ pre.readme.rows = <<>>) => WinOnlyOutcome

\* the scenario holds for the installer versions that sort above the baseline '0.0.0'
WinOnlyAboveBaseline ==
    (/\ pc = "returned"
     /\ OnlyWin
     /\ StrLess(BaseVersion, extract_version(results["win32-x64"]))
     /\ faults = 0
     /\ pre.hist = File("ok", <<>>)
     /\ pre.readme.exists
     /\ pre.readme.rows = <<>>) => WinOnlyOutcome

\* and is reached for them
WinOnlyAboveBaselineReached ==
    /\ pc = "returned"
    /\ OnlyWin
    /\ pre.hist = File("ok", <<>>)
    /\ pre.readme.table
    /\ WinOnlyOutcome

\* one entry per version string
Unique(versions) ==
    \A i, j \in 1..Len(versions) : versions[i].version = versions[j].version => i = j

\* a forced update_readme has merged its entry into a history that had one for
\* latest_version
ForcedReplace ==
    /\ force
    /\ saver = "update"
    /\ pc \in {"save", "save_write", "save_rename", "save_ret", "render", "returned"}
    /\ HasVersion(pre.hist, latest)

\* C17: when force_update is set and the history has an entry for
\* latest_version, the history handed to save_version_history has exactly one entry for
\* that version, the new one, whose platforms map holds every URL fetched this round,
\* and every other entry of it is an entry of the old history, unmodified.
C17_ForcedUpdateKeepsOneEntry ==
    ForcedReplace =>
        LET old == pre.hist.versions
            new == mem.versions
            at  == {i \in 1..Len(new) : new[i].version = latest}
        IN  /\ Cardinality(at) = 1
            /\ \A i \in at :
                  \A p \in PlatformIds :
                      api[p] # NoUrl =>
                          (p \in DOMAIN new[i].platforms /\ new[i].platforms[p] = api[p])
            /\ \A i \in 1..Len(new) : i \notin at => new[i] \in Range(old)

\* what holds of a forced replacement whatever the length: the history handed to save_version_history has at most
\* one entry for latest_version, and exactly one when the old history is within the cap
\* of 100 entries (beyond it the truncation can drop the entry); that entry is the new
\* one, dated today, whose platforms map holds every URL fetched this round; every
\* other entry is an entry of the old history, unmodified; over a sorted history of
\* distinct versions within the cap the result is the old list with that one position
\* replaced.  A save that writes puts exactly this in version-history.json.
ForcedUpdateWithinCap ==
    ForcedReplace =>
        LET old == pre.hist.versions
            new == mem.versions
            at  == {i \in 1..Len(new) : new[i].version = latest}
        IN  /\ Cardinality(at) <= 1
            /\ Len(old) <= MaxHistory => Cardinality(at) = 1
            /\ \A i \in at :
                  /\ new[i].date = format_date(day)
                  /\ \A p \in PlatformIds :
                        api[p] # NoUrl =>
                            (p \in DOMAIN new[i].platforms /\ new[i].platforms[p] = api[p])
            /\ \A i \in 1..Len(new) : i \notin at => new[i] \in Range(old)
            /\ (Sorted(old) /\ Unique(old) /\ Len(old) <= MaxHistory) =>
                  new = [old EXCEPT ![existing_version_index(old, latest)] = NewEntry]
            /\ saveRes = "written" => hist = mem

\* the replacement is reached: a forced update has written a history of two entries in which the entry
\* of latest_version now has a darwin-arm64 URL that the old entry lacked.
ForcedUpdateWithinCapReached ==
    /\ ForcedReplace
    /\ pc = "save_ret"
    /\ saveRes = "written"
    /\ Len(pre.hist.versions) = 2
    /\ LET old == pre.hist.versions[existing_version_index(pre.hist.versions, latest)]
           new == hist.versions[existing_version_index(hist.versions, latest)]
       IN  /\ "darwin-arm64" \notin DOMAIN old.platforms
           /\ "darwin-arm64" \in DOMAIN new.platforms
           /\ new.platforms["darwin-arm64"] = api["darwin-arm64"]

\* C18: in every history the reconciler writes, from update_readme or from the repair
\* of sync_readme_to_history, every key of every entry's platforms map is one of the
\* platform ids of PLATFORMS.
C18_SavedKeysArePlatformIds ==
    WrittenByReconciler =>
        \A i \in 1..Len(hist.versions) :
            DOMAIN hist.versions[i].platforms \subseteq PlatformIds

\* C19: after every update_readme that returns True, README.md has the table, with one
\* row per entry of the in-memory history, in the history's order, each the rendering
\* of its entry, and no other row, whatever rows the README held before.
C19_TableRendersHistory ==
    (pc = "returned" /\ ret = "true") =>
        /\ readme.exists
        /\ readme.table
        /\ Len(readme.rows) = Len(mem.versions)
        /\ \A i \in 1..Len(readme.rows) :
              /\ readme.rows[i].version = mem.versions[i].version
              /\ readme.rows[i].date = mem.versions[i].date
              /\ readme.rows[i] = RenderRow(mem.versions[i])

\* C19 witness: update_readme has returned True over a README whose table started with
\* a row for a version that is not in the history, and the table has no such row now.
C19_Witness ==
    /\ pc = "returned"
    /\ ret = "true"
    /\ Len(mem.versions) >= 2
    /\ Len(pre.readme.rows) >= 1
    /\ pre.readme.rows[1] = DriftRow
    /\ ~HasVersion(mem, V777)
    /\ V777 \notin RowVersions(readme)

\* the versions other than 'Unknown' that the platforms of this round have yielded
Observed ==
    {extract_version(results[p]) : p \in {q \in PlatformIds : results[q] # NoUrl}}
        \ {Unknown}

\* v is the greatest string of the set S
IsMaxOf(v, S) == v \in S /\ \A w \in S : ~StrLess(v, w)

\* C20: once the fetch loop has ended, if at least one platform has yielded a version
\* other than 'Unknown', update_readme does not take the 'no usable version' exit and
\* latest_version is the greatest, as a string, of the versions observed.
C20_LatestIsMaxObserved ==
    (pc = "reconcile" /\ Observed # {}) =>
        (~NoUsableVersion /\ IsMaxOf(latest, Observed))

\* what holds of latest_version: it is the greatest string among the baseline and the
\* versions observed, and the 'no usable version' exit is taken exactly when no
\* observed version sorts above the baseline
LatestIsMaxWithBaseline ==
    pc = "reconcile" =>
        /\ IsMaxOf(latest, Observed \cup {BaseVersion})
        /\ NoUsableVersion <=> (\A v \in Observed : ~StrLess(BaseVersion, v))

\* and a round of several versions is reached, where the greatest string ('1.9.0') is
\* not the greatest version ('1.10.0')
LatestIsMaxWithBaselineReached ==
    /\ pc = "reconcile"
    /\ Observed = {V190, V1100}
    /\ latest = V190

\* C21: main exits non-zero only from an update_readme that ended by an exception; a
\* round without any usable result goes on to verify_file_integrity, and
\* verify_file_integrity, its repair and the repair's save included, always ends
\* normally.
C21_ExitOnlyOnEscape ==
    [][/\ pc' = "exit1" => (pc = "returned" /\ ret = "raised")
       /\ (pc = "returned" /\ NoPlatformVersion) => pc' = "verify"
       /\ pc = "verify" => pc' \in {"done", "save"}
       /\ (pc = "save_ret" /\ saver = "sync") => pc' = "done"]_vars

\* C21 witness: in a forced run every fetch has failed, update_readme has returned
\* False and main is at the integrity check.
C21_Witness ==
    /\ pc = "verify"
    /\ force
    /\ ret = "false"
    /\ \A p \in PlatformIds : results[p] = NoUrl

\* the specified first step: one entry per version, the first seen, in insertion order
FirstSeen(s) ==
    LET keep == {i \in 1..Len(s) : \A j \in 1..(i - 1) : s[j].version # s[i].version}
        nth(k) == CHOOSE i \in keep : Cardinality({j \in keep : j <= i}) = k
    IN  Table([k \in 1..Cardinality(keep) |-> s[nth(k)]])

\* the sequence the merge starts from: the history read, with the new entry put in
MergeInput ==
    ReplaceOrAppend(pre.hist.versions,
                    existing_version_index(pre.hist.versions, latest), NewEntry)

\* C22: the history update_readme hands to save_version_history (sorted, then
\* deduplicated, then truncated) is the sequence that deduplicating first (first seen
\* wins), then sorting stably by version, descending, then truncating gives; each
\* entry of it is the earliest entry of its version in the sequence before the merge.
C22_MergeOrdersAgree ==
    (pc = "save" /\ saver = "update") =>
        /\ mem.versions = Truncate(SortDesc(FirstSeen(MergeInput)))
        /\ \A i \in 1..Len(mem.versions) :
              mem.versions[i] =
                  MergeInput[existing_version_index(MergeInput, mem.versions[i].version)]

\* C22 witness: a merge over a history with two entries of one version, different in
\* their dates and not next to each other, and out of order.
C22_Witness ==
    /\ pc = "save"
    /\ saver = "update"
    /\ Len(pre.hist.versions) = 3
    /\ pre.hist.versions[1].version = pre.hist.versions[3].version
    /\ pre.hist.versions[1].date # pre.hist.versions[3].date
    /\ StrLess(pre.hist.versions[1].version, pre.hist.versions[2].version)
    /\ Len(mem.versions) = 3

\* the platforms whose fetch of this round gave a URL
Fetched == {p \in PlatformIds : fetch_latest_download_url(p) # NoUrl}

\* the entry of version v in a history that has one
EntryOf(file, v) == file.versions[existing_version_index(file.versions, v)]

\* the platforms map holds the URL of every platform fetched this round, of no other
MapsTheFetched(e) ==
    /\ DOMAIN e.platforms = Fetched
    /\ \A p \in Fetched : e.platforms[p] = api[p]

\* C23: the entry of latest_version in the history update_readme hands to the save, and
\* in version-history.json once that save has written, maps exactly the platforms whose
\* fetch gave a URL this round, of every OS family, whatever version each URL carries.
C23_EntryMapsEveryFetched ==
    /\ (saver = "update" /\ HasVersion(mem, latest)) => MapsTheFetched(EntryOf(mem, latest))
    /\ (UpdateSaved /\ HasVersion(hist, latest)) => MapsTheFetched(EntryOf(hist, latest))

\* C23 witness: the round gave a Windows installer of 1.10.0, a macOS URL of 1.9.0 and a
\* Linux URL without a version; the entry of 1.9.0 written to version-history.json maps
\* the three.
C23_Witness ==
    /\ UpdateSaved
    /\ latest = V190
    /\ HasVersion(hist, latest)
    /\ extract_version(results["win32-x64"]) = V1100
    /\ extract_version(results["linux-x64"]) = Unknown
    /\ DOMAIN EntryOf(hist, latest).platforms = {"win32-x64", "darwin-arm64", "linux-x64"}

\* the cases in which the Integrity Checker has nothing to repair
NothingToRepair ==
    \/ hist.kind = "missing"
    \/ ~readme.exists
    \/ FirstVersionRow(readme.rows) = 0
    \/ HasVersion(hist, readme.rows[FirstVersionRow(readme.rows)].version)

\* C24: verify_file_integrity returns without changing a file when version-history.json
\* or README.md is missing, when README.md has no version row, or when the version of
\* its first version row is in the history; and no step of verify_file_integrity, the
\* repair and its save included, ends in main's except.
C24_VerifyWritesOnlyOnDrift ==
    [][/\ (pc = "verify" /\ NothingToRepair) =>
              (pc' = "done" /\ UNCHANGED <<hist, backup, tmp, readme>>)
       /\ Verifying => pc' # "exit1"]_vars

\* C24 witness: a run has ended whose Integrity Checker found a README with a version
\* row and no version-history.json; there is still no history and no backup.
C24_Witness ==
    /\ pc = "done"
    /\ runs = 1
    /\ hist = Missing
    /\ backup = Missing
    /\ tmp = Missing
    /\ readme.exists
    /\ FirstVersionRow(readme.rows) # 0

\* C25: each turn of the fetch loop asks for the one platform next in the fixed order,
\* with no later platform asked for yet; a fetch that fails leaves that platform without
\* a result and latest_version as it was, and the loop goes on to the next platform, to
\* the reconciliation after the last one.
C25_FailedFetchSkipsPlatform ==
    [][pc = "fetch" =>
          LET platform == PlatformOrder[idx]
          IN  /\ \A k \in idx..Len(PlatformOrder) : results[PlatformOrder[k]] = NoUrl
              /\ idx' = idx + 1
              /\ pc' = IF idx = Len(PlatformOrder) THEN "reconcile" ELSE "fetch"
              /\ results'[platform] = fetch_latest_download_url(platform)
              /\ \A p \in PlatformIds \ {platform} : results'[p] = results[p]
              /\ fetch_latest_download_url(platform) = NoUrl => latest' = latest]_vars

\* C25 witness: the loop has ended after a failed fetch that came between two that gave
\* a URL and before the one whose version became latest_version.
C25_Witness ==
    /\ pc = "reconcile"
    /\ ~down
    /\ latest = V190
    /\ \E i, j, k \in 1..Len(PlatformOrder) :
          /\ i < j /\ j < k
          /\ results[PlatformOrder[i]] # NoUrl
          /\ results[PlatformOrder[j]] = NoUrl
          /\ extract_version(results[PlatformOrder[k]]) = V190

\* C26 as claimed: whenever update_readme has returned True, version-history.json holds an
\* entry for the latest_version of that call.
C26_TrueMeansRecorded ==
    (pc = "returned" /\ ret = "true") => HasVersion(hist, latest)

\* what does hold of a True return: when the save of the call wrote the file and the
\* history read held fewer than 100 entries, the entry is in version-history.json
RecordedWhenSavedWithinCap ==
    (pc = "returned" /\ ret = "true" /\ saveRes = "written"
        /\ Len(pre.hist.versions) < MaxHistory) => HasVersion(hist, latest)

\* C27 as claimed: at every step of a save_version_history that found a file at the
\* path, version-history.json is the complete previous or the complete new content.
C27_SaveNeverLosesFile ==
    (pc \in {"save", "save_write", "save_rename", "save_ret"} /\ pre.hist.kind # "missing")
        => hist \in {pre.hist, mem}

\* the version strings of a history file (none in a file without a versions list)
VersionSet(file) ==
    IF file.kind = "ok" THEN {file.versions[i].version : i \in 1..Len(file.versions)}
    ELSE {}

\* no save is under way: update_readme's save has returned, or the repair's has
BetweenSaves == pc \in {"save_ret", "render", "returned", "verify"}

\* C28: in a run that started from a version-history.json with fewer than 100 entries
\* and in which nothing has failed, once a save has returned, and up to the end of the
\* run (the update path and the Integrity Checker's repair alike, forced or not),
\* version-history.json holds every version string it held when the run started. Each
\* run starts from what the run before it left, so the set never loses a member.
C28_VersionSetNeverShrinks ==
    (BetweenSaves /\ faults = 0 /\ pre.hist.kind = "ok"
        /\ Len(pre.hist.versions) < MaxHistory)
        => VersionSet(pre.hist) \subseteq VersionSet(hist)

\* C28 witness: a first run saved 9.0.0 and was killed before the README write; in the
\* second run the Integrity Checker's repair has added the README's 7.7.7; the two
\* versions the history started with are still there.
C28_Witness ==
    /\ pc = "save_ret"
    /\ saver = "sync"
    /\ saveRes = "written"
    /\ faults = 0
    /\ runs = 2
    /\ killed = V900
    /\ VersionSet(hist) = {V900, V777, V190, V123}

\* an entry of latest_version made of this round alone: today's date, and the URL of
\* every platform fetched this round and of no other
OfThisRound(e) ==
    /\ e.date = format_date(day)
    /\ DOMAIN e.platforms = Fetched
    /\ \A p \in Fetched : e.platforms[p] = api[p]

\* C29: after a forced update of a version the history had an entry for, every entry of
\* that version in the history handed to the save, and in version-history.json once the
\* save has written, is of this round alone: dated today, with the URLs fetched this
\* round and none of the URLs the old entry had for platforms whose fetch failed; a
\* history within the cap of 100 entries has such an entry.
C29_ForcedUpdateReplacesWholesale ==
    ForcedReplace =>
        /\ \A i \in 1..Len(mem.versions) :
              mem.versions[i].version = latest => OfThisRound(mem.versions[i])
        /\ Len(pre.hist.versions) <= MaxHistory => HasVersion(mem, latest)
        /\ saveRes = "written" =>
              \A i \in 1..Len(hist.versions) :
                  hist.versions[i].version = latest => OfThisRound(hist.versions[i])

\* C29 witness: the history had an entry of 1.2.3 with a win32-x64 and a linux-x64 URL
\* of an earlier day; the forced round fetched the Windows installer of 1.2.3 only; the
\* entry written has today's date and the win32-x64 URL alone.
C29_Witness ==
    /\ ForcedReplace
    /\ pc = "returned"
    /\ saveRes = "written"
    /\ latest = V123
    /\ OldEntry(V123) \in Range(pre.hist.versions)
    /\ HasVersion(hist, latest)
    /\ DOMAIN EntryOf(hist, latest).platforms = {"win32-x64"}
    /\ EntryOf(hist, latest).date # OldEntry(V123).date

====
